---- MODULE Spec2Model ----
(***************************************************************************)
(* Model of fuel_api/utils.py (route curve, segment projection, stop       *)
(* selection, plan_trip) and of the generate_route view that calls it.     *)
(*                                                                         *)
(* Number representation.  The program computes in floats.  Here           *)
(*   - a coordinate (degrees of latitude / longitude), a projection factor *)
(*     t and an interpolation fraction are exact rationals <<n, d>>, d > 0,*)
(*     kept in lowest terms;                                               *)
(*   - a length (km or miles), a price and a score are fixed-point         *)
(*     integers counting 1/Scale of the unit, rounded down.                *)
(* haversine_km is a great-circle metric; its trigonometry is replaced by  *)
(* a planar metric on the coordinates (|dlat| + |dlon|, KmPerDegree km per *)
(* coordinate unit), which keeps what the program relies on: it is zero    *)
(* exactly between equal points, symmetric, and additive along a straight  *)
(* axis-parallel leg.                                                      *)
(***************************************************************************)
EXTENDS Integers, Naturals, Sequences, FiniteSets, TLC

VARIABLES
    GLOBAL_STATIONS_DF,     \* the catalog rows kept at import (row i is index i-1)
    GLOBAL_STATIONS_TREE,   \* the BallTree over them, or None
    call,                   \* the invocation under way and its arguments
    ret,                    \* <<>> while it runs, then <<what it returned>>
    pc,                     \* where generate_route / plan_trip stands
    geocoded,               \* generate_route: origin_coords, destination_coords
    posts,                  \* the POSTs sent to the directions service so far
    route_geo,              \* plan_trip: the base route's GeoJSON
    curve,                  \* plan_trip: pts_list, cumdist_arr, lats_arr, lons_arr
    total_miles,            \* plan_trip
    n_stops,                \* plan_trip
    marker,                 \* plan_trip: position in stop_km_markers
    results,                \* plan_trip
    prev_proj_km,           \* plan_trip
    stop,                   \* plan_trip: stop_pt, idx_seg, frac of this marker
    rung,                   \* plan_trip: position in the radius list
    selections,             \* the best_station_for_stop calls made and their results
    final_route_pts,        \* plan_trip
    outcome                 \* plan_trip: None while it runs, then its return or raise

globals == <<GLOBAL_STATIONS_DF, GLOBAL_STATIONS_TREE>>

request == <<pc, geocoded, posts, route_geo, curve, total_miles, n_stops, marker, results,
             prev_proj_km, stop, rung, selections, final_route_pts, outcome>>

vars == <<GLOBAL_STATIONS_DF, GLOBAL_STATIONS_TREE, call, ret, pc, geocoded, posts,
          route_geo, curve, total_miles, n_stops, marker, results, prev_proj_km, stop, rung,
          selections, final_route_pts, outcome>>

\* Python's None
None == [none |-> TRUE]

\* fixed-point resolution of lengths, prices and scores: 10^5 per unit
Scale == 10 ^ 5

MILES_PER_STOP == 450

MAX_DEVIATION_MILES == 20

MIN_DEVIATION_KM == (35 * Scale) \div 100

ALPHA == 1

BETA == 3

Fx(n) == n * Scale

Abs(a) == IF a < 0 THEN 0 - a ELSE a

Max2(a, b) == IF a >= b THEN a ELSE b

Min2(a, b) == IF a <= b THEN a ELSE b

\* the one element of a one-element set; Only({F(x) : x \in {e}}) is F(e)
\* with e evaluated once and its value named x
Only(S) == CHOOSE y \in S : TRUE

RECURSIVE GCD(_, _)
GCD(a, b) == IF b = 0 THEN a ELSE Only({GCD(v[1], v[2]) : v \in {<<b, a % b>>}})

\* floor(a * b / c) for a, b >= 0 and c > 0, computed over the binary digits
\* of a from the top one (of weight p) down, so that no intermediate value
\* exceeds 3 * c or the result: with b = qb * c + rb and <<q, r>> the quotient
\* and remainder of (the digits read so far) * b by c
RECURSIVE MulDivDigits(_, _, _, _, _, _, _)
MulDivDigits(a, qb, rb, c, p, q, r) ==
    IF p = 0 THEN q
    ELSE Only({MulDivDigits(a, qb, rb, c, v[1], v[2] + (v[3] \div c), v[3] % c) :
                  v \in {<<p \div 2,
                           2 * q + ((a \div p) % 2) * qb,
                           2 * r + ((a \div p) % 2) * rb>>}})

MulDiv(a, b, c) ==
    Only({MulDivDigits(v[1], v[2] \div v[3], v[2] % v[3], v[3], 2 ^ 30, 0, 0) :
             v \in {<<Min2(a, b), Max2(a, b), c>>}})

(***************************************************************************)
(* Exact rationals                                                         *)
(***************************************************************************)
\* n / d in lowest terms, d # 0
Rat(n, d) ==
    Only({<<v[1] \div v[3], v[2] \div v[3]>> :
             v \in {<<n, d, GCD(Abs(n), Abs(d)) * (IF d < 0 THEN 0 - 1 ELSE 1)>>}})

RInt(n) == <<n, 1>>

RAdd(a, b) ==
    Only({Only({Rat(v[1][1] * (v[2][2] \div g) + v[2][1] * (v[1][2] \div g),
                    v[1][2] * (v[2][2] \div g)) : g \in {GCD(v[1][2], v[2][2])}}) :
             v \in {<<a, b>>}})

RNeg(a) == Only({<<0 - v[1], v[2]>> : v \in {a}})

RSub(a, b) == RAdd(a, RNeg(b))

\* the common factors are cancelled before multiplying
RMul(a, b) ==
    Only({Only({Rat((v[1][1] \div g[1]) * (v[2][1] \div g[2]),
                    (v[1][2] \div g[2]) * (v[2][2] \div g[1])) :
                   g \in {<<GCD(Abs(v[1][1]), v[2][2]), GCD(Abs(v[2][1]), v[1][2])>>}}) :
             v \in {<<a, b>>}})

\* a / b for b # 0
RDiv(a, b) == Only({RMul(a, Rat(v[2], v[1])) : v \in {b}})

RLt(a, b) == RSub(a, b)[1] < 0

RLe(a, b) == RSub(a, b)[1] <= 0

RAbs(a) == Only({<<Abs(v[1]), v[2]>> : v \in {a}})

\* np.clip(t, 0.0, 1.0)
RClip01(t) ==
    Only({IF v[1] < 0 THEN RInt(0) ELSE IF v[1] > v[2] THEN RInt(1) ELSE v : v \in {t}})

\* a rational number of units as a fixed-point length: floor(r * k), r >= 0
RTimes(r, k) == Only({MulDiv(v[1], k, v[2]) : v \in {r}})

(***************************************************************************)
(* Units and great-circle distance                                         *)
(***************************************************************************)
\* km_to_miles(km) = km / 1.609344 ; miles_to_km(mi) = mi * 1.609344
\* (1.609344 = 25146 / 15625)
km_to_miles(km) == MulDiv(km, 15625, 25146)

miles_to_km(mi) == MulDiv(mi, 25146, 15625)

\* km spanned by one coordinate unit under the planar metric: 50 miles
KmPerDegree == miles_to_km(Fx(50))

\* haversine_km(lat1, lon1, lat2, lon2), scalar
haversine_km(lat1, lon1, lat2, lon2) ==
    RTimes(RAdd(RAbs(RSub(lat2, lat1)), RAbs(RSub(lon2, lon1))), KmPerDegree)

(***************************************************************************)
(* vectorized_segment_projection: one point against the segments           *)
(* (x1[i], y1[i]) -> (x2[i], y2[i]); returns the arrays dists_km and t.    *)
(***************************************************************************)
\* the projection factor of one segment as the geometry defines it:
\* ((P - A) . (B - A)) / |B - A|^2, clamped, 0 for a zero-length segment
DotProjectionT(px, py, ax, ay, bx, by) ==
    LET vx == RSub(bx, ax)
        vy == RSub(by, ay)
        wx == RSub(px, ax)
        wy == RSub(py, ay)
        vv == RAdd(RMul(vx, vx), RMul(vy, vy))
        dot == RAdd(RMul(wx, vx), RMul(wy, vy))
    IN  IF vv[1] = 0 THEN RInt(0) ELSE RClip01(RDiv(dot, vv))

\* lines 69-82 for segment i
SegmentT(px, py, ax, ay, bx, by) ==
    LET vx == RSub(bx, ax)
        vy == RSub(by, ay)
        wx == RSub(px, ax)
        wy == RSub(py, ay)
        vv == RAdd(RMul(vx, vx), RMul(vy, vy))
        dot == RAdd(RMul(wx, vx), RMul(wy, wy))
        \* dot / vv under np.errstate: 0/0 is NaN, replaced by 0 by
        \* nan_to_num; x/0 with x # 0 is +-inf, replaced by +-(largest float)
    IN  Only({RClip01(IF v[1][1] # 0 THEN RDiv(v[2], v[1])
                      ELSE IF v[2][1] = 0 THEN RInt(0)
                      ELSE IF v[2][1] > 0 THEN RInt(2) ELSE RInt(0 - 1)) :
                 v \in {<<vv, dot>>}})

\* lines 84-89 for segment i: <<dists_km[i], t[i]>>
SegmentProjection(px, py, ax, ay, bx, by) ==
    Only({<<haversine_km(py, px, RAdd(ay, RMul(t, RSub(by, ay))),
                                 RAdd(ax, RMul(t, RSub(bx, ax)))), t>> :
             t \in {SegmentT(px, py, ax, ay, bx, by)}})

vectorized_segment_projection(px, py, x1, y1, x2, y2) ==
    Only({[dists |-> [i \in 1..Len(x1) |-> each[i][1]],
           ts    |-> [i \in 1..Len(x1) |-> each[i][2]]] :
             each \in {[i \in 1..Len(x1) |->
                           SegmentProjection(px, py, x1[i], y1[i], x2[i], y2[i])]}})

(***************************************************************************)
(* Route curve.  Python indexes from 0: At(s, i) is s[i].                  *)
(***************************************************************************)
At(s, i) == s[i + 1]

\* s[a:b] for 0 <= a
Slice(s, a, b) ==
    LET hi == Min2(b, Len(s))
    IN  IF a >= hi THEN <<>> ELSE [i \in 1..(hi - a) |-> s[a + i]]

\* np.cumsum
RECURSIVE cumsum(_)
cumsum(s) ==
    IF Len(s) = 0 THEN <<>>
    ELSE Only({Append(front, (IF Len(front) = 0 THEN 0 ELSE front[Len(front)]) + s[Len(s)]) :
                  front \in {cumsum(SubSeq(s, 1, Len(s) - 1))}})

\* route_geojson["features"][0]["geometry"]["coordinates"] is a sequence of
\* <<lon, lat>>; returns pts (<<lat, lon>> pairs), cumdist, lats, lons
route_points_and_cumdist(route_geojson) ==
    LET coords == route_geojson.coordinates
        n      == Len(coords)
        lons   == [i \in 1..n |-> coords[i][1]]
        lats   == [i \in 1..n |-> coords[i][2]]
        dists  == [i \in 1..(n - 1) |->
                      haversine_km(lats[i], lons[i], lats[i + 1], lons[i + 1])]
        cumdist == IF n > 1 THEN <<0>> \o cumsum(dists) ELSE <<0>>
    IN  [pts |-> [i \in 1..n |-> <<lats[i], lons[i]>>],
         cumdist |-> cumdist, lats |-> lats, lons |-> lons]

\* np.searchsorted(a, v) (side='left'): binary search on [lo, hi)
RECURSIVE bisect(_, _, _, _)
bisect(a, v, lo, hi) ==
    IF lo >= hi THEN lo
    ELSE LET mid == (lo + hi) \div 2
         IN  IF At(a, mid) < v THEN bisect(a, v, mid + 1, hi)
                               ELSE bisect(a, v, lo, mid)

searchsorted_right(a, v) == Cardinality({i \in 1..Len(a) : a[i] <= v})

searchsorted(a, v) == bisect(a, v, 0, Len(a))

point_on_route_at_distance(pts, cumdist, target_km) ==
    IF target_km >= cumdist[Len(cumdist)]
    THEN [pt |-> pts[Len(pts)], seg |-> Len(pts) - 1, frac |-> RInt(1)]
    ELSE LET idx      == searchsorted(cumdist, target_km)
             prev     == Max2(0, idx - 1)
             start_km == At(cumdist, prev)
             end_km   == At(cumdist, idx)
             seg_len  == end_km - start_km
             frac     == IF seg_len > 0 THEN Rat(target_km - start_km, seg_len)
                                        ELSE RInt(0)
             p1       == At(pts, prev)
             p2       == At(pts, idx)
             lat      == RAdd(p1[1], RMul(frac, RSub(p2[1], p1[1])))
             lon      == RAdd(p1[2], RMul(frac, RSub(p2[2], p1[2])))
         IN  [pt |-> <<lat, lon>>, seg |-> prev, frac |-> frac]

(***************************************************************************)
(* Catalog load at import (utils.py lines 28-45).  A CSV file is readable  *)
(* or not and holds a sequence of rows; a row without coordinates has      *)
(* latitude = longitude = NaN.                                             *)
(***************************************************************************)
Unreadable == [readable |-> FALSE, rows |-> <<>>]

CsvFile(rows) == [readable |-> TRUE, rows |-> rows]

\* the float NaN: no rational has denominator 0
NaN == <<0, 0>>

\* df[latitude.notna() & longitude.notna()].reset_index(drop=True)
notna_rows(csv) ==
    SelectSeq(csv.rows, LAMBDA row : row.latitude # NaN /\ row.longitude # NaN)

\* BallTree(...): the tree keeps the points and an index array, the order in
\* which a query reports them; an empty array raises ValueError
BallTree(data, idx_array) ==
    IF Len(data) = 0 THEN [exc |-> "ValueError"]
    ELSE [data |-> data, idx_array |-> idx_array]

\* the state the try/except of lines 28-45 leaves: <<DF, TREE>>
load_stations(csv, idx_array) ==
    IF ~csv.readable THEN <<<<>>, None>>
    ELSE LET df   == notna_rows(csv)
             tree == BallTree([i \in 1..Len(df) |-> <<df[i].latitude, df[i].longitude>>],
                              idx_array)
         IN  IF "exc" \in DOMAIN tree THEN <<<<>>, None>> ELSE <<df, tree>>

\* tree.query_radius(q, r)[0]: the indices (from 0) of the points within
\* radius_km of q, in the order of the tree's index array
query_radius(tree, q, radius_km) ==
    SelectSeq(tree.idx_array,
              LAMBDA i : haversine_km(q[1], q[2], At(tree.data, i)[1], At(tree.data, i)[2])
                             <= radius_km)

(***************************************************************************)
(* best_station_for_stop                                                   *)
(***************************************************************************)
window == 200

\* np.argmin: the first index (from 0) of the minimum
argmin(a) ==
    Only({(CHOOSE i \in 1..Len(v) :
              /\ \A j \in 1..Len(v) : v[i] <= v[j]
              /\ \A j \in 1..(i - 1) : v[j] > v[i]) - 1 : v \in {a}})

\* the sort with the order of equal scores reversed
insert_by_score_unstable(sorted, x) ==
    Only({Only({SubSeq(v[1], 1, k) \o <<v[2]>> \o SubSeq(v[1], k + 1, Len(v[1])) :
                   k \in {Cardinality({i \in 1..Len(v[1]) : v[1][i].score < v[2].score})}}) :
             v \in {<<sorted, x>>}})

\* list.sort(key=score): insertion keeps equal scores in their order
insert_by_score(sorted, x) ==
    Only({Only({SubSeq(v[1], 1, k) \o <<v[2]>> \o SubSeq(v[1], k + 1, Len(v[1])) :
                   k \in {Cardinality({i \in 1..Len(v[1]) : v[1][i].score <= v[2].score})}}) :
             v \in {<<sorted, x>>}})

RECURSIVE sort_by_score(_)
sort_by_score(l) ==
    IF Len(l) = 0 THEN <<>>
    ELSE insert_by_score(sort_by_score(SubSeq(l, 1, Len(l) - 1)), l[Len(l)])

\* the filter without its tolerance
behind_progress_strict(proj_km, prev_route_km) == proj_km < prev_route_km

\* the filter with the previous stop ignored
behind_progress_never(proj_km, prev_route_km) == FALSE

\* the progression filter of line 272: TRUE when the candidate is skipped
behind_progress(proj_km, prev_route_km) == proj_km < prev_route_km - (Scale \div 1000)

\* lines 228-247: the segments [start_seg, end_seg] around the marker
route_window(n_pts, stop_route_index) ==
    LET start_seg == Max2(0, stop_route_index - window)
        end_seg   == Min2(n_pts - 2, stop_route_index + window)
    IN  IF start_seg > end_seg THEN <<0, Max2(0, n_pts - 2)>>
                               ELSE <<start_seg, end_seg>>

\* lines 253-284 for one candidate: its entry of best_candidates_list, or None
\* when the progression filter skips it
candidate_entry(idx_cand, prev_route_km, route_lats, route_lons, route_cumdist, w) ==
    LET cand   == At(GLOBAL_STATIONS_DF, idx_cand)
        seg_lons1 == Slice(route_lons, w[1], w[2] + 1)
        seg_lats1 == Slice(route_lats, w[1], w[2] + 1)
        seg_lons2 == Slice(route_lons, w[1] + 1, w[2] + 2)
        seg_lats2 == Slice(route_lats, w[1] + 1, w[2] + 2)
        seg_base_cumdist == Slice(route_cumdist, w[1], w[2] + 1)
        seg_next  == Slice(route_cumdist, w[1] + 1, w[2] + 2)
        seg_lengths == [i \in 1..Len(seg_base_cumdist) |-> seg_next[i] - seg_base_cumdist[i]]
    IN  Only({
          Only({
            Only({IF behind_progress(proj_km, prev_route_km) THEN None
                  ELSE [idx |-> idx_cand, data |-> cand,
                        deviation_km |-> Max2(At(pr.dists, min_idx_local), MIN_DEVIATION_KM),
                        proj_route_km |-> proj_km,
                        score |-> Max2(At(pr.dists, min_idx_local), MIN_DEVIATION_KM) * ALPHA
                                      + cand.price * BETA] :
                proj_km \in {At(seg_base_cumdist, min_idx_local)
                                + RTimes(At(pr.ts, min_idx_local),
                                         At(seg_lengths, min_idx_local))}}) :
            min_idx_local \in {argmin(pr.dists)}}) :
          pr \in {vectorized_segment_projection(cand.longitude, cand.latitude,
                      seg_lons1, seg_lats1, seg_lons2, seg_lats2)}})

\* the entries the loop appended, in order
RECURSIVE not_none(_)
not_none(entries) ==
    IF Len(entries) = 0 THEN <<>>
    ELSE Only({(IF e = None THEN <<>> ELSE <<e>>) \o not_none(Tail(entries)) :
                  e \in {Head(entries)}})

\* the stop dictionary of lines 294-305
stop_dict(best_obj) ==
    [idx |-> best_obj.idx, name |-> best_obj.data.name, price |-> best_obj.data.price,
     latitude |-> best_obj.data.latitude, longitude |-> best_obj.data.longitude,
     deviation_km |-> best_obj.deviation_km, proj_route_km |-> best_obj.proj_route_km,
     score |-> best_obj.score]

\* returns a stop dictionary, None, or [exc |-> ...] when it raises
best_station_for_stop(stop_point, stop_route_index, prev_route_km, route_lats, route_lons, route_cumdist, current_max_deviation_miles) ==
    IF GLOBAL_STATIONS_TREE = None
    THEN [exc |-> "AttributeError"]    \* None has no query_radius
    ELSE
    LET radius_km == miles_to_km(Fx(current_max_deviation_miles))
        w         == route_window(Len(route_lats), stop_route_index)
    IN  Only({
          IF Len(idxs) = 0 THEN None
          ELSE Only({IF Len(best_candidates_list) = 0 THEN None
                     ELSE stop_dict(sort_by_score(best_candidates_list)[1]) :
                  best_candidates_list \in {not_none(
                      [i \in 1..Len(idxs) |->
                          candidate_entry(idxs[i], prev_route_km,
                                          route_lats, route_lons, route_cumdist, w)])}}) :
          idxs \in {query_radius(GLOBAL_STATIONS_TREE, stop_point, radius_km)}})

(***************************************************************************)
(* The world the requests run in: places, roads and truck stops.           *)
(* Coordinates are in coordinate units (one unit spans 50 miles).          *)
(***************************************************************************)
Station(name, lat, lon, price) ==
    [name |-> name, latitude |-> lat, longitude |-> lon, price |-> price]

\* the rows a truckstops CSV is drawn from, in file order
StationPool ==
    << Station("on_route_9", RInt(0), RInt(9), Fx(3)),
       Station("twin_9", RInt(0), RInt(9), Fx(3)),
       Station("cheap_north_9", RInt(1), RInt(9), Fx(2)),
       Station("exit_a", RInt(0), Rat(46, 5), Fx(3)),
       Station("exit_b", Rat(1, 4),
               RSub(RSub(Rat(46, 5), Rat(1, 192)), Rat(1, 100000)), Fx(3)),
       Station("on_route_18", RInt(0), RInt(18), (7 * Scale) \div 2),
       Station("ungeocoded", NaN, NaN, Fx(3)) >>

MaxRows == 3

RECURSIVE seq_of(_)
\* the members of a set of positions of the pool, in file order
seq_of(S) ==
    IF S = {} THEN <<>>
    ELSE LET m == CHOOSE x \in S : \A y \in S : y <= x
         IN  Append(seq_of(S \ {m}), StationPool[m])

CsvFiles ==
    {CsvFile(seq_of(S)) :
        S \in {T \in SUBSET (1..Len(StationPool)) : Cardinality(T) <= MaxRows}}
        \cup {Unreadable}

\* the index arrays a tree over n points may hold
IdxArrays(n) == {[i \in 1..n |-> i - 1], [i \in 1..n |-> n - i]}

\* the states the import can leave
Imports ==
    UNION {{load_stations(csv, ia) : ia \in IdxArrays(Len(notna_rows(csv)))} :
              csv \in CsvFiles}

\* roads as GeoJSON coordinate lists, <<lon, lat>>
P(lon, lat) == <<RInt(lon), RInt(lat)>>

\* 1000 miles due east
StraightRoad == <<P(0, 0), P(20, 0)>>

\* the same road with a vertex at mile 450, reported twice
StraightRoadVia == <<P(0, 0), P(9, 0), P(9, 0), P(20, 0)>>

\* 600 miles east, 50 north, 600 back west: 1250 miles
BentRoad == <<P(0, 0), P(12, 0), P(12, 1), P(0, 1)>>

\* 250 miles
ShortRoad == <<P(0, 0), P(5, 0)>>

\* 450 miles exactly
EdgeRoad == <<P(0, 0), P(4, 0), P(9, 0)>>

Roads == {StraightRoad, StraightRoadVia, BentRoad, ShortRoad, EdgeRoad}

\* what the geocoder knows: address -> {"lat", "lon"}
Places ==
    [Depot |-> [lat |-> RInt(0), lon |-> RInt(0)],
     Far   |-> [lat |-> RInt(0), lon |-> RInt(20)],
     Loop  |-> [lat |-> RInt(1), lon |-> RInt(0)],
     Near  |-> [lat |-> RInt(0), lon |-> RInt(5)],
     Edge  |-> [lat |-> RInt(0), lon |-> RInt(9)]]

\* the geometries the directions service may answer a two-point request with
OrsRoutes(coordinates) ==
    {g \in Roads : g[1] = coordinates[1] /\ g[Len(g)] = coordinates[2]}

(***************************************************************************)
(* get_route_geojson, get_route_geojson_with_waypoints: the requests they  *)
(* send.  A POST ends with status "200" and a body, with another status    *)
(* ("non200"), or with an exception (timeout, connection error).           *)
(***************************************************************************)
Post(coordinates, radiuses, timeout, status) ==
    [coordinates |-> coordinates, radiuses |-> radiuses, timeout |-> timeout,
     status |-> status]

\* the mock with the end point dropped
straight_line_one_point(start_lat, start_lon, end_lat, end_lon) ==
    [coordinates |-> <<<<start_lon, start_lat>>>>]

\* lines 129-136
straight_line(start_lat, start_lon, end_lat, end_lon) ==
    [coordinates |-> <<<<start_lon, start_lat>>, <<end_lon, end_lat>>>>]

\* the body's "coordinates" of lines 103-108
route_body(c) == <<<<c.origin.lon, c.origin.lat>>, <<c.destination.lon, c.destination.lat>>>>

(***************************************************************************)
(* plan_trip                                                               *)
(***************************************************************************)
\* the radii in decreasing order
Ladder_descending == <<150, 100, 50, MAX_DEVIATION_MILES>>

\* the radii without the widest one
Ladder_three_rungs == <<MAX_DEVIATION_MILES, 50, 100>>

\* the radii of line 335, in miles
Ladder == <<MAX_DEVIATION_MILES, 50, 100, 150>>

\* stop_km_markers[i], i from 0
stop_km_marker(i) == miles_to_km(Fx((i + 1) * MILES_PER_STOP))

\* the early return of line 321
short_trip_return(pts_list) == <<<<>>, pts_list, pts_list>>

\* the return of line 363
trip_return(stops, pts_list, final_pts, miles) == <<stops, pts_list, final_pts, miles>>

\* waypoints with the stops in reverse order
waypoints_reversed(c, stops) ==
    <<<<c.origin.lon, c.origin.lat>>>>
        \o [i \in 1..Len(stops) |-> <<stops[Len(stops) + 1 - i].longitude,
                                      stops[Len(stops) + 1 - i].latitude>>]
        \o <<<<c.destination.lon, c.destination.lat>>>>

\* lines 353-354
waypoints(c, stops) ==
    <<<<c.origin.lon, c.origin.lat>>>>
        \o [i \in 1..Len(stops) |-> <<stops[i].longitude, stops[i].latitude>>]
        \o <<<<c.destination.lon, c.destination.lat>>>>

(***************************************************************************)
(* generate_route (views.py): the fuel computation of lines 44-58          *)
(***************************************************************************)
MPG == 10

\* round(x, n) on a fixed-point number, ties to even
round(x, n) ==
    LET q  == Scale \div (10 ^ n)
        lo == x \div q
        rm == x % q
    IN  IF 2 * rm > q \/ (2 * rm = q /\ lo % 2 = 1) THEN (lo + 1) * q ELSE lo * q

RECURSIVE sum_prices(_)
sum_prices(stops) ==
    IF Len(stops) = 0 THEN 0 ELSE stops[1].price + sum_prices(Tail(stops))

route_response(stops, route_pts, opt_route_pts, miles) ==
    LET total_gallons  == miles \div MPG
        avg_fuel_price == IF Len(stops) > 0 THEN sum_prices(stops) \div Len(stops)
                          ELSE (38 * Scale) \div 10
        total_money_spent == MulDiv(total_gallons, avg_fuel_price, Scale)
    IN  [status |-> 200,
         route_summary |-> [total_distance_miles |-> round(miles, 2),
                            total_fuel_gallons |-> round(total_gallons, 2),
                            total_fuel_cost |-> round(total_money_spent, 2),
                            average_price_paid |-> round(avg_fuel_price, 3)],
         stops |-> stops,
         final_route |-> IF Len(opt_route_pts) > 0 THEN opt_route_pts ELSE route_pts]

error_response(status, error) == [status |-> status, error |-> error]

(***************************************************************************)
(* Specification of vectorized_segment_projection on its own: a point and  *)
(* one segment on a small grid.                                            *)
(***************************************************************************)
MaxCoord == 2

NoCatalog ==
    /\ GLOBAL_STATIONS_DF = <<>>
    /\ GLOBAL_STATIONS_TREE = None

\* no request is being served
NoRequest ==
    /\ pc = "idle"
    /\ geocoded = None
    /\ posts = <<>>
    /\ route_geo = None
    /\ curve = None
    /\ total_miles = 0
    /\ n_stops = 0
    /\ marker = 0
    /\ results = <<>>
    /\ prev_proj_km = 0
    /\ stop = None
    /\ rung = 0
    /\ selections = <<>>
    /\ final_route_pts = <<>>
    /\ outcome = None

InitProj ==
    /\ NoCatalog
    /\ call \in [fn : {"vectorized_segment_projection"},
                 px : 0..MaxCoord, py : 0..MaxCoord,
                 x1 : 0..MaxCoord, y1 : 0..MaxCoord,
                 x2 : 0..MaxCoord, y2 : 0..MaxCoord]
    /\ ret = <<>>
    /\ NoRequest

ApplyProjection ==
    /\ call.fn = "vectorized_segment_projection"
    /\ ret = <<>>
    /\ ret' = <<vectorized_segment_projection(
                    RInt(call.px), RInt(call.py),
                    <<RInt(call.x1)>>, <<RInt(call.y1)>>,
                    <<RInt(call.x2)>>, <<RInt(call.y2)>>)>>
    /\ UNCHANGED <<call, globals, request>>

SpecProj == InitProj /\ [][ApplyProjection]_vars

(***************************************************************************)
(* Specification of best_station_for_stop on its own: a loaded catalog, a  *)
(* road, a marker on it, a previous stop position and a radius.            *)
(***************************************************************************)
InitSelect ==
    /\ \E imp \in Imports :
          /\ imp[2] # None
          /\ GLOBAL_STATIONS_DF = imp[1]
          /\ GLOBAL_STATIONS_TREE = imp[2]
    /\ \E road \in {StraightRoad, BentRoad}, m \in 1..2 :
       \E rc \in {route_points_and_cumdist([coordinates |-> road])} :
       \E at \in {point_on_route_at_distance(rc.pts, rc.cumdist,
                                              miles_to_km(Fx(m * MILES_PER_STOP)))} :
       \E back \in 0..2, j \in 1..Len(Ladder) :
              call = [fn |-> "best_station_for_stop",
                      stop_point |-> at.pt, stop_route_index |-> at.seg,
                      prev_route_km |-> IF back = 0 THEN 0
                                        ELSE miles_to_km(Fx(MILES_PER_STOP))
                                                 + (Scale \div 1000) + (back - 1),
                      route_lats |-> rc.lats, route_lons |-> rc.lons,
                      route_cumdist |-> rc.cumdist,
                      current_max_deviation_miles |-> Ladder[j]]
    /\ ret = <<>>
    /\ NoRequest

ApplySelect ==
    /\ call.fn = "best_station_for_stop"
    /\ ret = <<>>
    /\ ret' = <<best_station_for_stop(call.stop_point, call.stop_route_index,
                   call.prev_route_km, call.route_lats, call.route_lons,
                   call.route_cumdist, call.current_max_deviation_miles)>>
    /\ UNCHANGED <<call, globals, request>>

SpecSelect == InitSelect /\ [][ApplySelect]_vars

(***************************************************************************)
(* Specification of point_on_route_at_distance on its own: a route of up   *)
(* to MaxPts points on the grid (repeated points included), its curve      *)
(* built by route_points_and_cumdist, and a target in half coordinate      *)
(* units.                                                                  *)
(***************************************************************************)
MaxPts == 3

\* <<lon, lat>>: the points of one parallel and one point off it
GridCoords == {<<RInt(x), RInt(0)>> : x \in 0..MaxCoord} \cup {<<RInt(0), RInt(1)>>}

GridRoutes == UNION {[1..n -> GridCoords] : n \in 1..MaxPts}

InitPoint ==
    /\ NoCatalog
    /\ \E g \in GridRoutes, k \in 0..(2 * MaxCoord * MaxPts) :
          LET rc == route_points_and_cumdist([coordinates |-> g])
          IN  call = [fn |-> "point_on_route_at_distance",
                      pts |-> rc.pts, cumdist |-> rc.cumdist,
                      target_km |-> k * (KmPerDegree \div 2)]
    /\ ret = <<>>
    /\ NoRequest

ApplyPoint ==
    /\ call.fn = "point_on_route_at_distance"
    /\ ret = <<>>
    /\ ret' = <<point_on_route_at_distance(call.pts, call.cumdist, call.target_km)>>
    /\ UNCHANGED <<call, globals, request>>

SpecPoint == InitPoint /\ [][ApplyPoint]_vars

(***************************************************************************)
(* Specification of the service: the catalog as the import left it and one *)
(* generate_route request, step by step through plan_trip.                 *)
(***************************************************************************)
Addresses == {"", "Depot", "Far", "Loop", "Near", "Edge"}

Init ==
    /\ \E imp \in Imports :
          /\ GLOBAL_STATIONS_DF = imp[1]
          /\ GLOBAL_STATIONS_TREE = imp[2]
    /\ \E destination \in Addresses, origin \in {"", "Depot"} :
          call = [fn |-> "generate_route", origin |-> origin, destination |-> destination]
    /\ ret = <<>>
    /\ pc = "request"
    /\ geocoded = None
    /\ posts = <<>>
    /\ route_geo = None
    /\ curve = None
    /\ total_miles = 0
    /\ n_stops = 0
    /\ marker = 0
    /\ results = <<>>
    /\ prev_proj_km = 0
    /\ stop = None
    /\ rung = 0
    /\ selections = <<>>
    /\ final_route_pts = <<>>
    /\ outcome = None

planning == <<curve, total_miles, n_stops, marker, results, prev_proj_km, stop, rung,
              selections, final_route_pts, outcome>>

\* views.py lines 14-21
BadRequest ==
    /\ pc = "request"
    /\ call.origin = "" \/ call.destination = ""
    /\ ret' = <<error_response(400, "Se requieren 'origin' y 'destination'.")>>
    /\ pc' = "done"
    /\ UNCHANGED <<globals, call, geocoded, posts, route_geo, planning>>

\* views.py lines 24-34; geocode_us_location answers with the place or, when
\* the address is unknown or the geocoder fails, with None
Geocode ==
    /\ pc = "request"
    /\ call.origin # "" /\ call.destination # ""
    /\ \E o \in {Places[call.origin], None}, d \in {Places[call.destination], None} :
          IF o = None \/ d = None
          THEN /\ ret' = <<error_response(404, "Ubicacion no encontrada en USA")>>
               /\ pc' = "done"
               /\ UNCHANGED geocoded
          ELSE /\ geocoded' = [origin |-> o, destination |-> d]
               /\ pc' = "route"
               /\ UNCHANGED ret
    /\ UNCHANGED <<globals, call, posts, route_geo, planning>>

\* get_route_geojson, first POST answered 200 (lines 111-113)
RouteFirstOk ==
    /\ pc = "route"
    /\ \E g \in OrsRoutes(route_body(geocoded)) :
          /\ posts' = Append(posts, Post(route_body(geocoded), TRUE, 10, "200"))
          /\ route_geo' = [coordinates |-> g]
    /\ pc' = "curve"
    /\ UNCHANGED <<globals, call, ret, geocoded, planning>>

\* first POST answered with another status (lines 117-119)
RouteFirstRefused ==
    /\ pc = "route"
    /\ posts' = Append(posts, Post(route_body(geocoded), TRUE, 10, "non200"))
    /\ pc' = "route_retry"
    /\ UNCHANGED <<globals, call, ret, geocoded, route_geo, planning>>

\* first POST raised (lines 124-136)
RouteFirstRaised ==
    /\ pc = "route"
    /\ posts' = Append(posts, Post(route_body(geocoded), TRUE, 10, "exception"))
    /\ route_geo' = straight_line(geocoded.origin.lat, geocoded.origin.lon,
                                  geocoded.destination.lat, geocoded.destination.lon)
    /\ pc' = "curve"
    /\ UNCHANGED <<globals, call, ret, geocoded, planning>>

\* the retry without "radiuses" answered 200 (lines 119-122)
RouteRetryOk ==
    /\ pc = "route_retry"
    /\ \E g \in OrsRoutes(route_body(geocoded)) :
          /\ posts' = Append(posts, Post(route_body(geocoded), FALSE, 10, "200"))
          /\ route_geo' = [coordinates |-> g]
    /\ pc' = "curve"
    /\ UNCHANGED <<globals, call, ret, geocoded, planning>>

\* the retry answered with another status or raised (lines 121-136)
RouteRetryFailed ==
    /\ pc = "route_retry"
    /\ \E status \in {"non200", "exception"} :
          posts' = Append(posts, Post(route_body(geocoded), FALSE, 10, status))
    /\ route_geo' = straight_line(geocoded.origin.lat, geocoded.origin.lon,
                                  geocoded.destination.lat, geocoded.destination.lon)
    /\ pc' = "curve"
    /\ UNCHANGED <<globals, call, ret, geocoded, planning>>

\* plan_trip lines 313-326
BuildCurve ==
    /\ pc = "curve"
    /\ \E rc \in {route_points_and_cumdist(route_geo)} :
       LET miles == km_to_miles(rc.cumdist[Len(rc.cumdist)])
           n     == miles \div Fx(MILES_PER_STOP)
       IN  /\ curve' = rc
           /\ total_miles' = miles
           /\ n_stops' = n
           /\ IF n = 0
              THEN /\ outcome' = [value |-> short_trip_return(rc.pts)]
                   /\ pc' = "unpack"
              ELSE /\ outcome' = outcome
                   /\ pc' = "marker"
    /\ results' = <<>>
    /\ prev_proj_km' = 0
    /\ marker' = 0
    /\ UNCHANGED <<globals, call, ret, geocoded, posts, route_geo, stop, rung,
                   selections, final_route_pts>>

\* the loop head of line 329 and line 331-333
MarkerPoint ==
    /\ pc = "marker"
    /\ marker < n_stops
    /\ stop' = point_on_route_at_distance(curve.pts, curve.cumdist, stop_km_marker(marker))
    /\ rung' = 0
    /\ pc' = "radius"
    /\ UNCHANGED <<globals, call, ret, geocoded, posts, route_geo, curve, total_miles,
                   n_stops, marker, results, prev_proj_km, selections, final_route_pts,
                   outcome>>

\* one turn of the radius loop (lines 335-342) and, when the loop ends, lines
\* 344-346
TryRadius ==
    /\ pc = "radius"
    /\ \E best \in {best_station_for_stop(stop.pt, stop.seg, prev_proj_km,
                       curve.lats, curve.lons, curve.cumdist, Ladder[rung + 1])} :
           /\ selections' = Append(selections,
                                   [marker |-> marker, r_miles |-> Ladder[rung + 1],
                                    prev_route_km |-> prev_proj_km, best |-> best])
           /\ IF "exc" \in DOMAIN best
              THEN /\ outcome' = best
                   /\ pc' = "unpack"
                   /\ UNCHANGED <<results, prev_proj_km, marker, rung>>
              ELSE IF best # None
              THEN /\ results' = Append(results, best)
                   /\ prev_proj_km' = best.proj_route_km
                   /\ marker' = marker + 1
                   /\ pc' = "marker"
                   /\ UNCHANGED <<outcome, rung>>
              ELSE IF rung + 1 < Len(Ladder)
              THEN /\ rung' = rung + 1
                   /\ UNCHANGED <<outcome, pc, results, prev_proj_km, marker>>
              ELSE /\ marker' = marker + 1
                   /\ pc' = "marker"
                   /\ UNCHANGED <<outcome, rung, results, prev_proj_km>>
    /\ UNCHANGED <<globals, call, ret, geocoded, posts, route_geo, curve, total_miles,
                   n_stops, stop, final_route_pts>>

\* the marker loop is over and no stop was selected (lines 350-352)
NoRefinement ==
    /\ pc = "marker"
    /\ marker = n_stops
    /\ results = <<>>
    /\ final_route_pts' = curve.pts
    /\ pc' = "return"
    /\ UNCHANGED <<globals, call, ret, geocoded, posts, route_geo, curve, total_miles,
                   n_stops, marker, results, prev_proj_km, stop, rung, selections, outcome>>

\* get_route_geojson_with_waypoints answered 200: the road through the
\* waypoints (lines 352-359)
RefineOk ==
    /\ pc = "marker"
    /\ marker = n_stops
    /\ results # <<>>
    /\ LET coords_list == waypoints(geocoded, results)
       IN  /\ posts' = Append(posts, Post(coords_list, TRUE, 20, "200"))
           /\ final_route_pts' = route_points_and_cumdist([coordinates |-> coords_list]).pts
    /\ pc' = "return"
    /\ UNCHANGED <<globals, call, ret, geocoded, route_geo, curve, total_miles,
                   n_stops, marker, results, prev_proj_km, stop, rung, selections, outcome>>

\* get_route_geojson_with_waypoints returned None (lines 151-158, 360-361)
RefineFailed ==
    /\ pc = "marker"
    /\ marker = n_stops
    /\ results # <<>>
    /\ \E status \in {"non200", "exception"} :
          posts' = Append(posts, Post(waypoints(geocoded, results), TRUE, 20, status))
    /\ final_route_pts' = curve.pts
    /\ pc' = "return"
    /\ UNCHANGED <<globals, call, ret, geocoded, route_geo, curve, total_miles,
                   n_stops, marker, results, prev_proj_km, stop, rung, selections, outcome>>

\* line 363
Return ==
    /\ pc = "return"
    /\ outcome' = [value |-> trip_return(results, curve.pts, final_route_pts, total_miles)]
    /\ pc' = "unpack"
    /\ UNCHANGED <<globals, call, ret, geocoded, posts, route_geo, curve, total_miles,
                   n_stops, marker, results, prev_proj_km, stop, rung, selections,
                   final_route_pts>>

\* views.py lines 37-103: unpacking the four values raises ValueError when
\* plan_trip returned another number of them
Respond ==
    /\ pc = "unpack"
    /\ ret' = IF "exc" \in DOMAIN outcome \/ Len(outcome.value) # 4
              THEN <<error_response(500, "Error de calculo de ruta")>>
              ELSE <<route_response(outcome.value[1], outcome.value[2],
                                    outcome.value[3], outcome.value[4])>>
    /\ pc' = "done"
    /\ UNCHANGED <<globals, call, geocoded, posts, route_geo, planning>>

Next ==
    \/ BadRequest \/ Geocode
    \/ RouteFirstOk \/ RouteFirstRefused \/ RouteFirstRaised
    \/ RouteRetryOk \/ RouteRetryFailed
    \/ BuildCurve \/ MarkerPoint \/ TryRadius
    \/ NoRefinement \/ RefineOk \/ RefineFailed
    \/ Return \/ Respond

Spec == Init /\ [][Next]_vars

(***************************************************************************)
(* Claims about plan_trip and generate_route (under Spec)                  *)
(***************************************************************************)
\* plan_trip returned its tuple
Returned == pc \in {"unpack", "done"} /\ "value" \in DOMAIN outcome

\* the tolerance of the progression filter, 1e-3 km
Epsilon == Scale \div 1000

C2_ShortTripAnswered ==
    Returned =>
        /\ Len(outcome.value) = 4
        /\ (pc = "done" /\ n_stops = 0) =>
              /\ ret[1].status = 200
              /\ ret[1].stops = <<>>
              /\ ret[1].final_route = curve.pts

\* C3: plan_trip never ends in an exception, whatever the routing service
\* answers, whether the catalog loaded or not, and whatever the route length.
C3_PlanTripNeverRaises == "exc" \notin DOMAIN outcome

\* the calls of best_station_for_stop made for marker m, in order
CallsFor(m) == SelectSeq(selections, LAMBDA s : s.marker = m)

\* the call returned a stop
Found(s) == "idx" \in DOMAIN s.best

\* C5: for each marker the radii 20, 50, 100, 150 miles are tried in that
\* order, stopping at the first one that returns a stop: every radius tried
\* before the last call of a marker returned None, and nothing is tried
\* after a call that returned a stop.
C5_LadderInOrder ==
    /\ \A i, j \in 1..Len(selections) :
          i < j => selections[i].marker <= selections[j].marker
    /\ \A m \in 0..n_stops :
          /\ Len(CallsFor(m)) <= 4
          /\ \A p \in 1..Len(CallsFor(m)) :
                /\ CallsFor(m)[p].r_miles = <<20, 50, 100, 150>>[p]
                /\ p < Len(CallsFor(m)) => CallsFor(m)[p].best = None

\* a stop was accepted at the widest radius after the three narrower ones
\* returned None
C5_Witness ==
    \E m \in 0..n_stops :
        /\ Len(CallsFor(m)) = 4
        /\ Found(CallsFor(m)[4])
        /\ CallsFor(m)[4].r_miles = 150

\* the proj_route_km of the last stop found before call i of the log, 0.0
\* when there is none
BoundBefore(i) ==
    IF \A h \in 1..(i - 1) : ~Found(selections[h]) THEN 0
    ELSE selections[CHOOSE h \in 1..(i - 1) :
                        /\ Found(selections[h])
                        /\ \A g \in (h + 1)..(i - 1) : ~Found(selections[g])]
             .best.proj_route_km

\* the markers the loop has finished with
Processed == {m \in 0..(n_stops - 1) : m < marker}

\* the markers left without a stop
Skipped == {m \in Processed : \A p \in 1..Len(CallsFor(m)) : ~Found(CallsFor(m)[p])}

\* C6: a marker no radius yields a stop for gets no stop and leaves the
\* progression bound as it was; a marker is skipped only after all four radii
\* returned None; the later markers are still processed; the stop count is
\* then less than n = floor(totalMiles / 450), and never more than n.
C6_SkippedMarker ==
    /\ Len(results) <= n_stops
    /\ Len(results) = Cardinality(Processed \ Skipped)
    /\ \A m \in Skipped :
          /\ Len(CallsFor(m)) = 4
          /\ \A p \in 1..4 : CallsFor(m)[p].best = None
    /\ \A i \in 1..Len(selections) : selections[i].prev_route_km = BoundBefore(i)
    /\ pc = "return" =>
          /\ Processed = 0..(n_stops - 1)
          /\ Skipped # {} => Len(results) < n_stops

\* the first marker was skipped and the second one, searched with the bound
\* still 0.0, got a stop
C6_Witness ==
    /\ pc = "return"
    /\ 0 \in Skipped
    /\ Len(results) = 1
    /\ \E i \in 1..Len(selections) :
          /\ selections[i].marker = 1
          /\ selections[i].prev_route_km = 0
          /\ Found(selections[i])

\* the requests of get_route_geojson
RoutePosts == SelectSeq(posts, LAMBDA q : q.timeout = 10)

\* the requests of get_route_geojson_with_waypoints
WaypointPosts == SelectSeq(posts, LAMBDA q : q.timeout = 20)

\* get_route_geojson has returned
RouteKnown == pc \notin {"request", "route", "route_retry"} /\ geocoded # None

StartEnd ==
    << <<geocoded.origin.lon, geocoded.origin.lat>>,
       <<geocoded.destination.lon, geocoded.destination.lat>> >>

\* C7: get_route_geojson always returns a geometry; when no request was
\* answered 200 it made at most two requests (the second one without
\* 'radiuses') and returned the straight line of exactly the two points
\* [start, end], and plan_trip goes on planning on that route.
C7_StraightLineFallback ==
    RouteKnown =>
          /\ route_geo # None
          /\ Len(RoutePosts) \in 1..2
          /\ Len(RoutePosts) = 2 =>
                /\ RoutePosts[1].status = "non200"
                /\ RoutePosts[1].radiuses /\ ~RoutePosts[2].radiuses
          /\ (\A i \in 1..Len(RoutePosts) : RoutePosts[i].status # "200") =>
                /\ route_geo.coordinates = StartEnd
                /\ pc \notin {"curve"} =>
                      curve.pts = << <<geocoded.origin.lat, geocoded.origin.lon>>,
                                     <<geocoded.destination.lat, geocoded.destination.lon>> >>

\* both requests failed and plan_trip placed a stop on the straight line
C7_Witness ==
    /\ RouteKnown
    /\ Len(RoutePosts) = 2
    /\ RoutePosts[2].status # "200"
    /\ Len(results) > 0

\* C8: the waypoint route is requested exactly when a stop was selected,
\* once, after all markers, with waypoints [start, stop1..stopN, end] in the
\* order of selection; when the request fails the final route is the base
\* route, and the stop list is as the markers left it.
C8_Refinement ==
    /\ pc \in {"request", "route", "route_retry", "curve", "marker", "radius"} =>
          WaypointPosts = <<>>
    /\ pc = "return" =>
          /\ results = [i \in 1..Len(results) |->
                           SelectSeq(selections, Found)[i].best]
          /\ Len(WaypointPosts) = (IF results = <<>> THEN 0 ELSE 1)
          /\ results = <<>> => final_route_pts = curve.pts
          /\ results # <<>> =>
                /\ Len(WaypointPosts[1].coordinates) = Len(results) + 2
                /\ \A i \in 1..(Len(results) + 2) :
                      WaypointPosts[1].coordinates[i] =
                          IF i = 1 THEN StartEnd[1]
                          ELSE IF i = Len(results) + 2 THEN StartEnd[2]
                          ELSE <<results[i - 1].longitude, results[i - 1].latitude>>
                /\ WaypointPosts[1].status # "200" => final_route_pts = curve.pts

\* the waypoint request of a trip with two stops failed
C8_Witness ==
    /\ pc = "return"
    /\ Len(results) = 2
    /\ Len(WaypointPosts) = 1
    /\ WaypointPosts[1].status # "200"
    /\ results[1] # results[2]

\* C12: within one plan_trip run no facility is selected twice: the idx
\* values of the returned stops are pairwise distinct, for every route shape
\* and every catalog.
C12_NoFacilityTwice ==
    Returned =>
        \A i, j \in 1..Len(outcome.value[1]) :
            i # j => outcome.value[1][i].idx # outcome.value[1][j].idx

(***************************************************************************)
(* Claims about best_station_for_stop (under SpecSelect)                   *)
(***************************************************************************)
SelectReturned == call.fn = "best_station_for_stop" /\ ret # <<>>

\* the facilities (catalog indices from 0) within the radius of the marker
WithinRadius ==
    {i \in 0..(Len(GLOBAL_STATIONS_DF) - 1) :
        haversine_km(call.stop_point[1], call.stop_point[2],
                     At(GLOBAL_STATIONS_DF, i).latitude,
                     At(GLOBAL_STATIONS_DF, i).longitude)
            <= miles_to_km(Fx(call.current_max_deviation_miles))}

\* the position of facility i in the answer of the radius query
QueryRank(i) ==
    CHOOSE k \in 1..Len(GLOBAL_STATIONS_TREE.idx_array) :
        GLOBAL_STATIONS_TREE.idx_array[k] = i

\* deviation and projected route distance of facility i on the windowed
\* segments, measured against no previous stop
Measured(i) ==
    candidate_entry(i, 0, call.route_lats, call.route_lons, call.route_cumdist,
                    route_window(Len(call.route_lats), call.stop_route_index))

\* ALPHA * max(deviation_km, 0.35) + BETA * price
ReferenceScore(i) ==
    1 * Max2(Measured(i).deviation_km, (35 * Scale) \div 100)
        + 3 * At(GLOBAL_STATIONS_DF, i).price

\* the facilities within the radius that are not behind the previous stop
Eligible ==
    {i \in WithinRadius : Measured(i).proj_route_km >= call.prev_route_km - Epsilon}

\* C4: best_station_for_stop returns None iff no facility within the radius
\* has proj_km >= prev_route_km - 1e-3, and otherwise the one of them with
\* the minimum score ALPHA * max(deviation_km, 0.35) + BETA * price, a tie
\* going to the one that comes first in the radius-query order; it never
\* returns a candidate with proj_route_km < prev_route_km - 1e-3.
C4_ReferenceSelection ==
    SelectReturned =>
        /\ ret[1] = None <=> Eligible = {}
        /\ Eligible # {} =>
              /\ ret[1].idx \in Eligible
              /\ ret[1].proj_route_km = Measured(ret[1].idx).proj_route_km
              /\ ret[1].proj_route_km >= call.prev_route_km - Epsilon
              /\ ret[1].score = ReferenceScore(ret[1].idx)
              /\ \A e \in Eligible :
                    /\ ReferenceScore(ret[1].idx) <= ReferenceScore(e)
                    /\ ReferenceScore(e) = ReferenceScore(ret[1].idx) =>
                          QueryRank(ret[1].idx) <= QueryRank(e)

\* a tie on score between two eligible facilities, won by the one with the
\* larger catalog index because the query reported it first, in a call made
\* after a previous stop
C4_Witness ==
    /\ SelectReturned
    /\ ret[1] # None
    /\ \E e \in Eligible :
          /\ e < ret[1].idx
          /\ ReferenceScore(e) = ReferenceScore(ret[1].idx)
    /\ call.prev_route_km > 0

(***************************************************************************)
(* Claims about vectorized_segment_projection (under SpecProj)             *)
(***************************************************************************)
ProjReturned == call.fn = "vectorized_segment_projection" /\ ret # <<>>

\* the candidate of the call lies on the segment of the call
OnSegment ==
    \E s \in 0..MaxCoord :
        /\ s <= Abs(call.x2 - call.x1) + Abs(call.y2 - call.y1)
        /\ \E d \in 1..(2 * MaxCoord) :
              /\ d * (call.px - call.x1) = s * (call.x2 - call.x1)
              /\ d * (call.py - call.y1) = s * (call.y2 - call.y1)
              /\ s <= d

\* C9: for every candidate P and segment A->B the factor returned is
\* t = clamp(((P-A).(B-A)) / |B-A|^2, 0, 1), with t = 0 when |B-A|^2 = 0, and a
\* candidate lying on the segment is projected onto itself: its deviation
\* (before the 0.35 km floor) is 0.
C9_ProjectionIsDotProduct ==
    ProjReturned =>
        /\ ret[1].ts[1] = DotProjectionT(RInt(call.px), RInt(call.py),
                                      RInt(call.x1), RInt(call.y1),
                                      RInt(call.x2), RInt(call.y2))
        /\ OnSegment => ret[1].dists[1] = 0

(***************************************************************************)
(* Claims about point_on_route_at_distance (under SpecPoint)               *)
(***************************************************************************)
PointReturned == call.fn = "point_on_route_at_distance" /\ ret # <<>>

PointInside == PointReturned /\ call.target_km < call.cumdist[Len(call.cumdist)]

\* the result is the interpolation on the segment that ends at vertex idx
InterpolatesAt(idx) ==
    LET prev == Max2(0, idx - 1)
        c0   == At(call.cumdist, prev)
        c1   == At(call.cumdist, idx)
    IN  /\ ret[1].seg = prev
        /\ RLe(RInt(0), ret[1].frac) /\ RLe(ret[1].frac, RInt(1))
        /\ c1 = c0 => ret[1].frac = RInt(0)
        /\ c0 + RTimes(ret[1].frac, c1 - c0) = call.target_km

\* C10 as stated: for 0 <= target < total length the insertion index idx has
\* cumdist[idx-1] <= target < cumdist[idx], and the result is segment
\* prev = max(0, idx-1) with a fraction in [0,1] such that
\* cumdist[prev] + fraction * (cumdist[idx] - cumdist[prev]) = target.
C10_InsertionIndexRight ==
    PointInside =>
        \E idx \in 1..(Len(call.cumdist) - 1) :
            /\ At(call.cumdist, idx - 1) <= call.target_km
            /\ call.target_km < At(call.cumdist, idx)
            /\ InterpolatesAt(idx)

\* C10 amended: the insertion index is the leftmost one, the first idx with
\* target <= cumdist[idx] (so cumdist[idx-1] < target when idx > 0, and idx = 0
\* for target 0); the result is segment prev = max(0, idx-1) with a fraction in
\* [0,1] (0 on a zero-length segment) such that
\* cumdist[prev] + fraction * (cumdist[idx] - cumdist[prev]) = target, and
\* target 0 returns the first point.
C10_InsertionIndexLeft ==
    PointInside =>
        /\ \E idx \in 0..(Len(call.cumdist) - 1) :
              /\ call.target_km <= At(call.cumdist, idx)
              /\ idx > 0 => At(call.cumdist, idx - 1) < call.target_km
              /\ InterpolatesAt(idx)
        /\ call.target_km = 0 => ret[1].pt = call.pts[1]

\* a target that equals the cumulative distance of an interior vertex: the
\* point is reported at the end of the segment before it
C10_Witness ==
    /\ PointInside
    /\ call.target_km > 0
    /\ \E i \in 2..(Len(call.cumdist) - 1) : call.cumdist[i] = call.target_km
    /\ ret[1].frac = RInt(1)

\* C11: for every target >= total route length point_on_route_at_distance
\* returns the last point, the last valid segment index (one of
\* 0..len(pts)-2 for a route of at least two points) and fraction 1.0.
C11_LastValidSegment ==
    (PointReturned /\ call.target_km >= call.cumdist[Len(call.cumdist)]) =>
        /\ ret[1].pt = call.pts[Len(call.pts)]
        /\ ret[1].frac = RInt(1)
        /\ Len(call.pts) >= 2 => ret[1].seg \in 0..(Len(call.pts) - 2)

====
